---------------------------- MODULE Spec2Model ----------------------------
(***************************************************************************)
(* The ledger of bankingsystem/core: the Account, Transaction, Profile and *)
(* Notification tables of models.py and the request handlers of views.py   *)
(* that write them.                                                        *)
(*                                                                         *)
(* A ledger handler (deposit, withdraw, transfer) is not one step: it      *)
(* loads the Account row into a Python object (get_object_or_404), decides *)
(* on that object, and later writes the object back inside                 *)
(* db_transaction.atomic().  Requests are served concurrently, so other    *)
(* requests commit between the load and the write.  Each handler is        *)
(* therefore a small process: Begin (the load and the checks made on the   *)
(* loaded object), for transfer Validate (form.is_valid() loads the target *)
(* row), and Commit (the atomic block, one step: its writes become visible *)
(* together).  Money is counted in whole units; an amount of 0 stands for  *)
(* every amount the forms refuse (below min_value 0.01).                   *)
(***************************************************************************)
EXTENDS Integers, Sequences, FiniteSets, TLC

\* Bounds of the model.
MaxAmount == 2          \* largest amount a request submits
MaxOpening == 2         \* largest opening deposit of an account in InitFunded
MaxRequests == 2        \* ledger requests started in one run
MaxAdminRequests == 2   \* administration and profile requests served in one run

Users == {"alice", "bob", "admin"}
\* Profile rows in primary-key order (the order Profile.objects.filter yields).
UserOrder == <<"alice", "bob", "admin">>
AccountIds == {1, 2}
Reqs == {"r1", "r2"}

\* models.py: Profile.USER_ROLES.  role is a CharField: "guest" stands for
\* every other string the column can hold (choices are not enforced on save).
USER_ROLES == {"customer", "staff"}
RoleValues == USER_ROLES \cup {"guest"}
STATUS_CHOICES == {"pending", "approved", "rejected"}
\* The transaction_type values the handlers write.
TxnTypes == {"deposit", "withdraw", "transfer_out", "transfer_in"}

Amounts == 0..MaxAmount
\* forms.py AccountForm: the balance field takes any decimal; a negative one,
\* zero and a positive one.
BalanceInputs == {-1, 0, 1}
NoAccount == 0

VARIABLES
  role,           \* Profile.role of each user
  accounts,       \* the Account table: id -> row
  nextAccountId,  \* the Account table's AUTOINCREMENT counter
  txns,           \* the Transaction table, in id order
  nextTxnId,      \* the Transaction table's AUTOINCREMENT counter
  notifications,  \* the Notification table, in id order
  req,            \* each request in flight: its position and its loaded objects
  started,        \* ledger requests started so far
  served          \* administration and profile requests served so far

vars == <<role, accounts, nextAccountId, txns, nextTxnId, notifications, req,
          started, served>>

\* An id with no row.
AbsentRow == [exists |-> FALSE, owner |-> "nobody", balance |-> 0, status |-> "pending"]

AccountRow(o, b, s) == [exists |-> TRUE, owner |-> o, balance |-> b, status |-> s]

\* A request that is not running and has not run.
\* A read keeps what its queries returned: row (the Account row), sum (the
\* aggregate or the last cumulative balance) and log (the Transaction rows).
\* at and upto are history fields: the Transaction id counter at the read's
\* first and last query, which tell whether a commit fell in between.
IdleReq ==
  [pc |-> "idle", op |-> "none", user |-> "nobody", role |-> "none",
   acct |-> NoAccount, row |-> AbsentRow, amount |-> 0,
   tgt |-> NoAccount, trow |-> AbsentRow, resp |-> "none",
   sum |-> 0, log |-> <<>>, at |-> 0, upto |-> 0]

\* A request that has answered: the handler it ran and what it answered.
DoneReq(op, resp) == [IdleReq EXCEPT !.pc = "done", !.op = op, !.resp = resp]

Txn(id, type, a, amt) ==
  [id |-> id, type |-> type, account |-> a, amount |-> amt, target |-> NoAccount]

Notif(s, rcv, kind) == [sender |-> s, receiver |-> rcv, kind |-> kind]

-----------------------------------------------------------------------------
\* Pure helpers.

RECURSIVE SumAmounts(_)
SumAmounts(s) == IF s = <<>> THEN 0 ELSE Head(s).amount + SumAmounts(Tail(s))

OfAccount(a) == SelectSeq(txns, LAMBDA t : t.account = a)
OfType(s, types) == SelectSeq(s, LAMBDA t : t.type \in types)

\* views.py account_detail: the balance history of an account, replayed from
\* its Transaction rows; the value after the last row.
RECURSIVE ReplayFrom(_, _)
ReplayFrom(balance, s) ==
  IF s = <<>> THEN balance
  ELSE LET txn == Head(s)
           b == IF txn.type \in {"deposit", "transfer_in"} THEN balance + txn.amount
                ELSE IF txn.type \in {"withdraw", "transfer_out"} THEN balance - txn.amount
                ELSE balance
       IN ReplayFrom(b, Tail(s))

Replay(a) == ReplayFrom(0, OfAccount(a))

\* Model.save() of an Account object: UPDATE of every column of the row with
\* the object's values (INSERT when the row is gone).
SaveAccount(accts, id, row) == [accts EXCEPT ![id] = row]

\* The amount field with min_value=0: an amount of zero passes.
AmountValidFromZero(amt) == amt >= 0

\* forms.py: DecimalField(min_value=0.01) of the three ledger forms.
AmountValid(amt) == amt >= 1

\* views.py deposit/withdraw: the two redirects before the form.
OwnerOrStaffDenied(r, owner, u) ==
  \/ (r = "customer" /\ owner # u)
  \/ r \notin {"staff", "customer"}

\* views.py transfer: the one redirect before the form.
TransferDenied(r, owner, u) == r = "customer" /\ owner # u

\* The balance test off by one: an amount one above the balance passes.
InsufficientOffByOne(amt, row) == amt > row.balance + 1

\* views.py withdraw/transfer: the balance test made on the loaded object.
Insufficient(amt, row) == amt > row.balance

\* The staff profiles, in primary-key order.
StaffUsers == SelectSeq(UserOrder, LAMBDA u : role[u] = "staff")

CanStart(r) == req[r].pc \in {"idle", "done"} /\ started < MaxRequests

CanServe == served < MaxAdminRequests

-----------------------------------------------------------------------------
\* views.py deposit

DepositBegin(r) ==
  /\ CanStart(r)
  /\ \E u \in Users, a \in AccountIds, amt \in Amounts :
       /\ role[u] # "none"
       /\ accounts[a].exists
       /\ req' = [req EXCEPT ![r] =
            IF OwnerOrStaffDenied(role[u], accounts[a].owner, u)
              THEN DoneReq("deposit", "redirect_dashboard")
            ELSE IF ~AmountValid(amt)
              THEN DoneReq("deposit", "form_errors")
            ELSE [IdleReq EXCEPT !.pc = "loaded", !.op = "deposit", !.user = u,
                                 !.role = role[u], !.acct = a, !.row = accounts[a],
                                 !.amount = amt]]
  /\ started' = started + 1
  /\ UNCHANGED <<role, accounts, nextAccountId, txns, nextTxnId, notifications, served>>

DepositCommit(r) ==
  /\ req[r].pc = "loaded" /\ req[r].op = "deposit"
  /\ LET q == req[r]
         row == [q.row EXCEPT !.balance = @ + q.amount]
     IN /\ accounts' = SaveAccount(accounts, q.acct, row)
        /\ txns' = Append(txns, Txn(nextTxnId, "deposit", q.acct, q.amount))
        /\ nextTxnId' = nextTxnId + 1
        /\ req' = [req EXCEPT ![r] = DoneReq("deposit", "Deposit successful")]
  /\ UNCHANGED <<role, nextAccountId, notifications, started, served>>

\* A write inside the atomic block fails (the UPDATE or the INSERT raises): the
\* block rolls back what it wrote and the request fails.
DepositFails(r) ==
  /\ req[r].pc = "loaded" /\ req[r].op = "deposit"
  /\ req' = [req EXCEPT ![r] = DoneReq("deposit", "server_error")]
  /\ UNCHANGED <<role, accounts, nextAccountId, txns, nextTxnId, notifications,
                 started, served>>

-----------------------------------------------------------------------------
\* views.py withdraw

WithdrawBegin(r) ==
  /\ CanStart(r)
  /\ \E u \in Users, a \in AccountIds, amt \in Amounts :
       /\ role[u] # "none"
       /\ accounts[a].exists
       /\ req' = [req EXCEPT ![r] =
            IF OwnerOrStaffDenied(role[u], accounts[a].owner, u)
              THEN DoneReq("withdraw", "redirect_dashboard")
            ELSE IF ~AmountValid(amt)
              THEN DoneReq("withdraw", "form_errors")
            ELSE [IdleReq EXCEPT !.pc = "loaded", !.op = "withdraw", !.user = u,
                                 !.role = role[u], !.acct = a, !.row = accounts[a],
                                 !.amount = amt]]
  /\ started' = started + 1
  /\ UNCHANGED <<role, accounts, nextAccountId, txns, nextTxnId, notifications, served>>

WithdrawCommit(r) ==
  /\ req[r].pc = "loaded" /\ req[r].op = "withdraw"
  /\ LET q == req[r]
         row == [q.row EXCEPT !.balance = @ - q.amount]
     IN IF Insufficient(q.amount, q.row)
          THEN /\ req' = [req EXCEPT ![r] = DoneReq("withdraw", "Insufficient balance")]
               /\ UNCHANGED <<accounts, txns, nextTxnId>>
          ELSE /\ accounts' = SaveAccount(accounts, q.acct, row)
               /\ txns' = Append(txns, Txn(nextTxnId, "withdraw", q.acct, q.amount))
               /\ nextTxnId' = nextTxnId + 1
               /\ req' = [req EXCEPT ![r] = DoneReq("withdraw", "Withdrawal successful")]
  /\ UNCHANGED <<role, nextAccountId, notifications, started, served>>

\* A write inside the atomic block fails: rollback, and the request fails.
WithdrawFails(r) ==
  /\ req[r].pc = "loaded" /\ req[r].op = "withdraw"
  /\ ~Insufficient(req[r].amount, req[r].row)
  /\ req' = [req EXCEPT ![r] = DoneReq("withdraw", "server_error")]
  /\ UNCHANGED <<role, accounts, nextAccountId, txns, nextTxnId, notifications,
                 started, served>>

-----------------------------------------------------------------------------
\* views.py transfer

TransferBegin(r) ==
  /\ CanStart(r)
  /\ \E u \in Users, a \in AccountIds, amt \in Amounts, t \in AccountIds :
       /\ role[u] # "none"
       /\ accounts[a].exists
       /\ req' = [req EXCEPT ![r] =
            IF TransferDenied(role[u], accounts[a].owner, u)
              THEN DoneReq("transfer", "redirect_dashboard")
            ELSE [IdleReq EXCEPT !.pc = "loaded", !.op = "transfer", !.user = u,
                                 !.role = role[u], !.acct = a, !.row = accounts[a],
                                 !.amount = amt, !.tgt = t]]
  /\ started' = started + 1
  /\ UNCHANGED <<role, accounts, nextAccountId, txns, nextTxnId, notifications, served>>

\* The choices with the source left in: the form's exclude() forgotten.
TargetChoicesWithSource(a) == {t \in AccountIds : accounts[t].exists}

\* forms.py TransferForm: the target is looked up among the accounts other
\* than the source.
TargetChoices(a) == {t \in AccountIds : accounts[t].exists /\ t # a}

\* What the bound TransferForm reports: the fields in error.
TransferFormErrors(q) ==
  IF q.tgt \in TargetChoices(q.acct)
    THEN (IF AmountValid(q.amount) THEN "none" ELSE "form_errors")
    ELSE (IF AmountValid(q.amount) THEN "form_errors_target_account"
          ELSE "form_errors_amount_target_account")

TransferValidate(r) ==
  /\ req[r].pc = "loaded" /\ req[r].op = "transfer"
  /\ LET q == req[r]
     IN req' = [req EXCEPT ![r] =
          IF TransferFormErrors(q) = "none"
            THEN [q EXCEPT !.pc = "validated", !.trow = accounts[q.tgt]]
            ELSE DoneReq("transfer", TransferFormErrors(q))]
  /\ UNCHANGED <<role, accounts, nextAccountId, txns, nextTxnId, notifications, started, served>>

\* The rows with the staff loop left out.
TransferNotificationsNoStaff(srcOwner, tgtOwner) ==
  <<Notif(srcOwner, tgtOwner, "received"), Notif(srcOwner, srcOwner, "sent")>>

\* The Notification rows of one transfer, in the order they are created.
TransferNotifications(srcOwner, tgtOwner) ==
  <<Notif(srcOwner, tgtOwner, "received"), Notif(srcOwner, srcOwner, "sent")>>
  \o [i \in 1..Len(StaffUsers) |-> Notif(srcOwner, StaffUsers[i], "admin")]

TransferCommit(r) ==
  /\ req[r].pc = "validated" /\ req[r].op = "transfer"
  /\ LET q == req[r]
         src == [q.row EXCEPT !.balance = @ - q.amount]
         dst == [q.trow EXCEPT !.balance = @ + q.amount]
     IN IF q.tgt = q.acct
          THEN /\ req' = [req EXCEPT ![r] =
                            DoneReq("transfer", "Cannot transfer to same account")]
               /\ UNCHANGED <<accounts, txns, nextTxnId, notifications>>
        ELSE IF Insufficient(q.amount, q.row)
          THEN /\ req' = [req EXCEPT ![r] = DoneReq("transfer", "Insufficient balance")]
               /\ UNCHANGED <<accounts, txns, nextTxnId, notifications>>
          ELSE /\ accounts' = SaveAccount(SaveAccount(accounts, q.acct, src), q.tgt, dst)
               /\ txns' = txns \o <<Txn(nextTxnId, "transfer_out", q.acct, q.amount),
                                    Txn(nextTxnId + 1, "transfer_in", q.tgt, q.amount)>>
               /\ nextTxnId' = nextTxnId + 2
               /\ notifications' =
                    notifications \o TransferNotifications(q.row.owner, q.trow.owner)
               /\ req' = [req EXCEPT ![r] = DoneReq("transfer", "Transfer successful")]
  /\ UNCHANGED <<role, nextAccountId, started, served>>

\* The refusal with the saves made outside the atomic block: the source's
\* UPDATE stays when the insert is refused.
TransferRefusedAfterSave(r) ==
  /\ req[r].pc = "validated" /\ req[r].op = "transfer"
  /\ req[r].tgt # req[r].acct
  /\ ~Insufficient(req[r].amount, req[r].row)
  /\ accounts' = SaveAccount(accounts, req[r].acct,
                             [req[r].row EXCEPT !.balance = @ - req[r].amount])
  /\ req' = [req EXCEPT ![r] = DoneReq("transfer", "server_error")]
  /\ UNCHANGED <<role, nextAccountId, txns, nextTxnId, notifications, started, served>>

\* models.py: transaction_type is a CharField(max_length=10) and the two
\* values a transfer writes are longer.  A database that enforces the length
\* refuses the first insert, the atomic block rolls back and the request
\* fails; one that does not (SQLite) stores the rows.  Both builds exist.
TransferRefusedByDatabase(r) ==
  /\ req[r].pc = "validated" /\ req[r].op = "transfer"
  /\ req[r].tgt # req[r].acct
  /\ ~Insufficient(req[r].amount, req[r].row)
  /\ req' = [req EXCEPT ![r] = DoneReq("transfer", "server_error")]
  /\ UNCHANGED <<role, accounts, nextAccountId, txns, nextTxnId, notifications,
                 started, served>>

\* views.py transfer: the Notification rows are created inside the atomic
\* block.  When one of the inserts raises, the exception leaves the block,
\* which rolls back the balances and the two Transaction rows with it, and the
\* request fails.
TransferNotificationFails(r) ==
  /\ req[r].pc = "validated" /\ req[r].op = "transfer"
  /\ req[r].tgt # req[r].acct
  /\ ~Insufficient(req[r].amount, req[r].row)
  /\ req' = [req EXCEPT ![r] = DoneReq("transfer", "notification_error")]
  /\ UNCHANGED <<role, accounts, nextAccountId, txns, nextTxnId, notifications,
                 started, served>>

-----------------------------------------------------------------------------
\* views.py transfer, the atomic block statement by statement, on a database
\* that locks a row at its UPDATE and holds the lock until the transaction
\* ends: account.save() locks the source row, target.save() the target row,
\* and the inserts and the commit follow without another wait.

\* Another request's transaction has updated row a and not yet ended.
RowHeldByOther(r, a) ==
  \E r2 \in Reqs \ {r} : req[r2].pc = "source_saved" /\ req[r2].acct = a

\* Two transfers each hold the row the other is waiting for.
WaitCycle(r, r2) ==
  /\ r # r2
  /\ req[r].pc = "source_saved" /\ req[r2].pc = "source_saved"
  /\ req[r].tgt = req[r2].acct /\ req[r2].tgt = req[r].acct

TransferSaveSource(r) ==
  /\ req[r].pc = "validated" /\ req[r].op = "transfer"
  /\ LET q == req[r]
     IN IF q.tgt = q.acct
          THEN req' = [req EXCEPT ![r] =
                         DoneReq("transfer", "Cannot transfer to same account")]
        ELSE IF Insufficient(q.amount, q.row)
          THEN req' = [req EXCEPT ![r] = DoneReq("transfer", "Insufficient balance")]
          ELSE /\ ~RowHeldByOther(r, q.acct)
               /\ req' = [req EXCEPT ![r] = [q EXCEPT !.pc = "source_saved"]]
  /\ UNCHANGED <<role, accounts, nextAccountId, txns, nextTxnId, notifications,
                 started, served>>

TransferSaveTarget(r) ==
  /\ req[r].pc = "source_saved"
  /\ ~RowHeldByOther(r, req[r].tgt)
  /\ LET q == req[r]
         src == [q.row EXCEPT !.balance = @ - q.amount]
         dst == [q.trow EXCEPT !.balance = @ + q.amount]
     IN /\ accounts' = SaveAccount(SaveAccount(accounts, q.acct, src), q.tgt, dst)
        /\ txns' = txns \o <<Txn(nextTxnId, "transfer_out", q.acct, q.amount),
                             Txn(nextTxnId + 1, "transfer_in", q.tgt, q.amount)>>
        /\ nextTxnId' = nextTxnId + 2
        /\ notifications' =
             notifications \o TransferNotifications(q.row.owner, q.trow.owner)
        /\ req' = [req EXCEPT ![r] = DoneReq("transfer", "Transfer successful")]
  /\ UNCHANGED <<role, nextAccountId, started, served>>

\* The database breaks a wait cycle by aborting one of the transactions: its
\* lock is released, nothing of it is written and its request fails.
TransferDeadlockVictim(r) ==
  /\ \E r2 \in Reqs : WaitCycle(r, r2)
  /\ req' = [req EXCEPT ![r] = DoneReq("transfer", "server_error")]
  /\ UNCHANGED <<role, accounts, nextAccountId, txns, nextTxnId, notifications,
                 started, served>>

-----------------------------------------------------------------------------
\* The read handlers.  Each runs its queries one after the other outside any
\* transaction, so a commit can fall between two of them; a query sees what
\* is committed when it runs.

CanRead(r) == req[r].pc \in {"idle", "done"} /\ CanServe

\* The row as a query would see it if it read the uncommitted UPDATE of a
\* transfer that has saved its source.
UncommittedRow(a) ==
  IF \E r \in Reqs : req[r].pc = "source_saved" /\ req[r].acct = a
    THEN LET r == CHOOSE x \in Reqs : req[x].pc = "source_saved" /\ req[x].acct = a
         IN [req[r].row EXCEPT !.balance = @ - req[r].amount]
    ELSE accounts[a]

\* The row a query sees: the committed one.
VisibleRow(a) == accounts[a]

RECURSIVE SumVisible(_)
SumVisible(ids) ==
  IF ids = {} THEN 0
  ELSE LET a == CHOOSE x \in ids : TRUE
       IN (IF VisibleRow(a).exists THEN VisibleRow(a).balance ELSE 0)
          + SumVisible(ids \ {a})

\* views.py account_detail: get_object_or_404 and the owner check.
AccountDetailLoad(r) ==
  /\ CanRead(r)
  /\ \E u \in Users, a \in AccountIds :
       /\ role[u] # "none"
       /\ accounts[a].exists
       /\ req' = [req EXCEPT ![r] =
            IF role[u] = "customer" /\ accounts[a].owner # u
              THEN DoneReq("account_detail", "redirect_dashboard")
            ELSE [IdleReq EXCEPT !.pc = "reading", !.op = "account_detail",
                                 !.user = u, !.role = role[u], !.acct = a,
                                 !.row = VisibleRow(a), !.at = nextTxnId]]
  /\ served' = served + 1
  /\ UNCHANGED <<role, accounts, nextAccountId, txns, nextTxnId, notifications, started>>

\* account_detail with a save of the loaded object after the replay.
AccountDetailRenderSaving(r) ==
  /\ req[r].pc = "reading" /\ req[r].op = "account_detail"
  /\ accounts' = SaveAccount(accounts, req[r].acct, req[r].row)
  /\ req' = [req EXCEPT ![r] =
       [@ EXCEPT !.pc = "done", !.resp = "rendered",
                 !.log = OfAccount(req[r].acct), !.sum = Replay(req[r].acct),
                 !.upto = nextTxnId]]
  /\ UNCHANGED <<role, nextAccountId, txns, nextTxnId, notifications, started, served>>

\* views.py account_detail: the account's Transaction rows and the replay.
AccountDetailRender(r) ==
  /\ req[r].pc = "reading" /\ req[r].op = "account_detail"
  /\ req' = [req EXCEPT ![r] =
       [@ EXCEPT !.pc = "done", !.resp = "rendered",
                 !.log = OfAccount(req[r].acct), !.sum = Replay(req[r].acct),
                 !.upto = nextTxnId]]
  /\ UNCHANGED <<role, accounts, nextAccountId, txns, nextTxnId, notifications,
                 started, served>>

\* views.py admin_dashboard: the role check and total_balance, the Sum over
\* the Account table in one query.
AdminDashboardBalances(r) ==
  /\ CanRead(r)
  /\ \E u \in Users :
       /\ role[u] # "none"
       /\ req' = [req EXCEPT ![r] =
            IF role[u] # "staff"
              THEN DoneReq("admin_dashboard",
                           IF role[u] = "customer" THEN "redirect_customer_dashboard"
                           ELSE "redirect_login")
            ELSE [IdleReq EXCEPT !.pc = "reading", !.op = "admin_dashboard",
                                 !.user = u, !.role = role[u],
                                 !.sum = SumVisible(AccountIds), !.at = nextTxnId]]
  /\ served' = served + 1
  /\ UNCHANGED <<role, accounts, nextAccountId, txns, nextTxnId, notifications, started>>

\* views.py admin_dashboard: the Transaction queries that follow.
AdminDashboardTransactions(r) ==
  /\ req[r].pc = "reading" /\ req[r].op = "admin_dashboard"
  /\ req' = [req EXCEPT ![r] =
       [@ EXCEPT !.pc = "done", !.resp = "rendered", !.log = txns,
                 !.upto = nextTxnId]]
  /\ UNCHANGED <<role, accounts, nextAccountId, txns, nextTxnId, notifications,
                 started, served>>

-----------------------------------------------------------------------------
\* The administration and profile handlers.  Each loads its row and saves it
\* in consecutive statements; it is taken as one step.

\* views.py create_account, forms.py AccountForm (fields account_type,
\* balance, owner): the row gets the form's owner and balance and the model's
\* default status.
create_account(u, o, b) ==
  /\ CanServe
  /\ role[u] = "staff"
  /\ role[o] # "none"
  /\ nextAccountId \in AccountIds
  /\ accounts' = SaveAccount(accounts, nextAccountId, AccountRow(o, b, "pending"))
  /\ nextAccountId' = nextAccountId + 1
  /\ served' = served + 1
  /\ UNCHANGED <<role, txns, nextTxnId, notifications, req, started>>

\* views.py edit_account: AccountForm bound to the loaded row.
edit_account(u, a, o, b) ==
  /\ CanServe
  /\ accounts[a].exists
  /\ role[u] = "staff"
  /\ role[o] # "none"
  /\ accounts' = SaveAccount(accounts, a, [accounts[a] EXCEPT !.owner = o, !.balance = b])
  /\ served' = served + 1
  /\ UNCHANGED <<role, nextAccountId, txns, nextTxnId, notifications, req, started>>

\* views.py delete_account; models.py: Transaction.account and
\* Transaction.target_account are on_delete=CASCADE.
delete_account(u, a) ==
  /\ CanServe
  /\ accounts[a].exists
  /\ role[u] = "staff"
  /\ accounts' = [accounts EXCEPT ![a] = AbsentRow]
  /\ txns' = SelectSeq(txns, LAMBDA t : t.account # a /\ t.target # a)
  /\ served' = served + 1
  /\ UNCHANGED <<role, nextAccountId, nextTxnId, notifications, req, started>>

\* delete_customer with the cascade to the customer's accounts left out.
delete_customer_keeping_accounts(u, c) ==
  /\ CanServe
  /\ role[c] # "none"
  /\ role[u] = "staff"
  /\ role' = [role EXCEPT ![c] = "none"]
  /\ served' = served + 1
  /\ UNCHANGED <<accounts, nextAccountId, txns, nextTxnId, notifications, req, started>>

\* views.py delete_customer: user.delete().  models.py: Profile.user,
\* Account.owner, Transaction.account, Transaction.target_account and
\* Notification.sender / receiver are on_delete=CASCADE, so the profile, its
\* accounts, their Transaction rows and the user's notifications go with it.
\* A user without a profile has role "none".
delete_customer(u, c) ==
  /\ CanServe
  /\ role[c] # "none"
  /\ role[u] = "staff"
  /\ role' = [role EXCEPT ![c] = "none"]
  /\ accounts' = [a \in AccountIds |->
                    IF accounts[a].exists /\ accounts[a].owner = c
                      THEN AbsentRow ELSE accounts[a]]
  /\ txns' = SelectSeq(txns, LAMBDA t :
                ~(accounts[t.account].exists /\ accounts[t.account].owner = c))
  /\ notifications' = SelectSeq(notifications,
                         LAMBDA n : n.sender # c /\ n.receiver # c)
  /\ served' = served + 1
  /\ UNCHANGED <<nextAccountId, nextTxnId, req, started>>

\* The request r is about to run its atomic block.
WritesRows(r) ==
  \/ req[r].pc = "loaded" /\ req[r].op = "deposit"
  \/ req[r].pc = "loaded" /\ req[r].op = "withdraw"
       /\ ~Insufficient(req[r].amount, req[r].row)
  \/ req[r].pc = "validated" /\ req[r].op = "transfer"
       /\ req[r].tgt # req[r].acct /\ ~Insufficient(req[r].amount, req[r].row)

\* models.py: Account.owner is a ForeignKey to Profile.  The rows the block
\* saves name profiles that still exist.
ReferencesHold(r) ==
  /\ role[req[r].row.owner] # "none"
  /\ req[r].op = "transfer" => role[req[r].trow.owner] # "none"

\* The commit of a block whose rows name existing profiles.
DepositCommitChecked(r) == (WritesRows(r) => ReferencesHold(r)) /\ DepositCommit(r)
WithdrawCommitChecked(r) == (WritesRows(r) => ReferencesHold(r)) /\ WithdrawCommit(r)
TransferCommitChecked(r) == (WritesRows(r) => ReferencesHold(r)) /\ TransferCommit(r)

\* The block saves an Account object whose owner's profile has been deleted:
\* save() finds no row to update and inserts one with a dangling owner, the
\* database refuses it, the block rolls back and the request fails.
ForeignKeyRefuses(r) ==
  /\ WritesRows(r)
  /\ ~ReferencesHold(r)
  /\ req' = [req EXCEPT ![r] = DoneReq(req[r].op, "integrity_error")]
  /\ UNCHANGED <<role, accounts, nextAccountId, txns, nextTxnId, notifications,
                 started, served>>

\* views.py pending_accounts (POST): the decision on one account.  The handler
\* reads neither the user's profile nor the row's current status.
pending_accounts(u, a, action) ==
  /\ CanServe
  /\ accounts[a].exists
  /\ accounts' = SaveAccount(accounts, a,
                   [accounts[a] EXCEPT !.status =
                      IF action = "approve" THEN "approved"
                      ELSE IF action = "reject" THEN "rejected"
                      ELSE @])
  /\ served' = served + 1
  /\ UNCHANGED <<role, nextAccountId, txns, nextTxnId, notifications, req, started>>

\* views.py customer_profile (POST): the profile's role is set from the
\* request's "role" field.
customer_profile(u, newRole) ==
  /\ CanServe
  /\ role[u] # "none"
  /\ role' = [role EXCEPT ![u] = newRole]
  /\ served' = served + 1
  /\ UNCHANGED <<accounts, nextAccountId, txns, nextTxnId, notifications, req, started>>

-----------------------------------------------------------------------------
\* Initial states.

InitRoles == [u \in Users |-> IF u = "admin" THEN "staff" ELSE "customer"]

\* Two approved accounts, alice's and bob's, each funded by one opening deposit.
OpeningTxns(b1, b2) ==
  (IF b1 > 0 THEN <<Txn(1, "deposit", 1, b1)>> ELSE <<>>)
  \o (IF b2 > 0 THEN <<Txn(IF b1 > 0 THEN 2 ELSE 1, "deposit", 2, b2)>> ELSE <<>>)

InitFunded ==
  /\ role = InitRoles
  /\ \E b1 \in 0..MaxOpening, b2 \in 0..MaxOpening :
       /\ accounts = [a \in AccountIds |->
                        IF a = 1 THEN AccountRow("alice", b1, "approved")
                                 ELSE AccountRow("bob", b2, "approved")]
       /\ txns = OpeningTxns(b1, b2)
       /\ nextTxnId = Len(OpeningTxns(b1, b2)) + 1
  /\ nextAccountId = 3
  /\ notifications = <<>>
  /\ req = [r \in Reqs |-> IdleReq]
  /\ started = 0
  /\ served = 0

NextLedger ==
  \E r \in Reqs :
    \/ DepositBegin(r) \/ DepositCommit(r) \/ DepositFails(r)
    \/ WithdrawBegin(r) \/ WithdrawCommit(r) \/ WithdrawFails(r)
    \/ TransferBegin(r) \/ TransferValidate(r) \/ TransferCommit(r)
    \/ TransferRefusedByDatabase(r) \/ TransferNotificationFails(r)

SpecLedger == InitFunded /\ [][NextLedger]_vars

\* Withdrawals only.
NextWithdraw == \E r \in Reqs : WithdrawBegin(r) \/ WithdrawCommit(r)

SpecWithdraw == InitFunded /\ [][NextWithdraw]_vars

\* Transfers only.
NextTransfer ==
  \E r \in Reqs :
    \/ TransferBegin(r) \/ TransferValidate(r) \/ TransferCommit(r)
    \/ TransferRefusedByDatabase(r) \/ TransferNotificationFails(r)

SpecTransfer == InitFunded /\ [][NextTransfer]_vars

\* Transfers only, the atomic block statement by statement.
NextLocks ==
  \E r \in Reqs :
    \/ TransferBegin(r) \/ TransferValidate(r)
    \/ TransferSaveSource(r) \/ TransferSaveTarget(r) \/ TransferDeadlockVictim(r)

SpecLocks == InitFunded /\ [][NextLocks]_vars

\* Transfers, statement by statement, and the reads running beside them.
NextReads ==
  \E r \in Reqs :
    \/ TransferBegin(r) \/ TransferValidate(r)
    \/ TransferSaveSource(r) \/ TransferSaveTarget(r) \/ TransferDeadlockVictim(r)
    \/ AccountDetailLoad(r) \/ AccountDetailRender(r)
    \/ AdminDashboardBalances(r) \/ AdminDashboardTransactions(r)

SpecReads == InitFunded /\ [][NextReads]_vars

\* The ledger handlers beside the two deletions.
NextDelete ==
  \/ \E r \in Reqs :
       \/ DepositBegin(r) \/ DepositCommitChecked(r)
       \/ WithdrawBegin(r) \/ WithdrawCommitChecked(r)
       \/ TransferBegin(r) \/ TransferValidate(r) \/ TransferCommitChecked(r)
       \/ ForeignKeyRefuses(r)
  \/ \E u \in Users, c \in Users : delete_customer(u, c)
  \/ \E u \in Users, a \in AccountIds : delete_account(u, a)

SpecDelete == InitFunded /\ [][NextDelete]_vars

\* A bank with one approved, funded account (alice's) and room for one more.
Init ==
  /\ role = InitRoles
  /\ accounts = [a \in AccountIds |->
                   IF a = 1 THEN AccountRow("alice", MaxOpening, "approved") ELSE AbsentRow]
  /\ txns = OpeningTxns(MaxOpening, 0)
  /\ nextTxnId = Len(OpeningTxns(MaxOpening, 0)) + 1
  /\ nextAccountId = 2
  /\ notifications = <<>>
  /\ req = [r \in Reqs |-> IdleReq]
  /\ started = 0
  /\ served = 0

NextAdmin ==
  \/ \E u \in Users, o \in Users, b \in BalanceInputs : create_account(u, o, b)
  \/ \E u \in Users, a \in AccountIds, o \in Users, b \in BalanceInputs :
       edit_account(u, a, o, b)
  \/ \E u \in Users, a \in AccountIds : delete_account(u, a)
  \/ \E u \in Users, a \in AccountIds, action \in {"approve", "reject"} :
       pending_accounts(u, a, action)
  \/ \E u \in Users, newRole \in RoleValues : customer_profile(u, newRole)

Next == NextLedger \/ NextAdmin

Spec == Init /\ [][Next]_vars

-----------------------------------------------------------------------------
\* Properties.

TxnsOf(log, a) == SelectSeq(log, LAMBDA t : t.account = a)

RECURSIVE SumBalances(_, _)
SumBalances(accts, ids) ==
  IF ids = {} THEN 0
  ELSE LET a == CHOOSE x \in ids : TRUE
       IN (IF accts[a].exists THEN accts[a].balance ELSE 0)
          + SumBalances(accts, ids \ {a})

Withdrawn(a) == SumAmounts(OfType(OfAccount(a), {"withdraw"}))
Deposited(a) == SumAmounts(OfType(OfAccount(a), {"deposit"}))

\* C1: over any interleaving of withdrawals on one account, the amounts of
\* the withdrawals that succeed sum to at most the starting balance (under
\* SpecWithdraw the opening deposit is the account's only credit).
C1_NoDoubleSpend == \A a \in AccountIds : Withdrawn(a) <= Deposited(a)

\* C2: after any interleaving of deposits, withdrawals and transfers from
\* non-negative balances, every account's committed balance is >= 0.
C2_BalanceNonNegative == \A a \in AccountIds : accounts[a].balance >= 0

\* A withdrawal and a refusal for lack of funds have both happened, and the
\* withdrawn account is empty.
C2_Witness ==
  /\ \E a \in AccountIds : accounts[a].balance = 0 /\ Withdrawn(a) > 0
  /\ \E r \in Reqs : req[r].pc = "done" /\ req[r].resp = "Insufficient balance"

\* C3: transfers conserve value: under transfers alone the balances sum to
\* what the accounts were opened with.
C3_TransfersConserveValue ==
  SumBalances(accounts, AccountIds) = SumAmounts(OfType(txns, {"deposit"}))

\* The leg that pairs with record t: the record of type `other` with the id
\* `id` and t's amount.
HasLeg(t, other, id) ==
  \E j \in 1..Len(txns) :
    /\ txns[j].type = other
    /\ txns[j].id = id
    /\ txns[j].amount = t.amount
    /\ txns[j].account # t.account

\* C4: in every committed state each transfer_out record has its transfer_in
\* record (the next id, the same amount, the other account) and each
\* transfer_in record its transfer_out record.
C4_TransferLegsPaired ==
  \A i \in 1..Len(txns) :
    /\ txns[i].type = "transfer_out" => HasLeg(txns[i], "transfer_in", txns[i].id + 1)
    /\ txns[i].type = "transfer_in" => HasLeg(txns[i], "transfer_out", txns[i].id - 1)

\* C5: every account's stored balance is the replay of its Transaction rows.
C5_BalanceIsReplay ==
  \A a \in AccountIds : accounts[a].exists => accounts[a].balance = Replay(a)

\* C6: no step appends a Transaction row for an account that is not approved
\* when the step is taken.
C6_OnlyApprovedTransact ==
  [][\A a \in AccountIds :
       (accounts[a].exists /\ accounts[a].status # "approved")
         => Len(TxnsOf(txns', a)) <= Len(TxnsOf(txns, a))]_vars

\* C7: once an account is approved or rejected, no step changes its status.
C7_StatusDecidedOnce ==
  [][\A a \in AccountIds :
       (accounts[a].exists /\ accounts[a].status # "pending" /\ accounts'[a].exists)
         => accounts'[a].status = accounts[a].status]_vars

\* The request r is answered in this step.
Answers(r) == req[r].pc \in {"loaded", "validated"} /\ req'[r].pc = "done"

\* C8: a ledger request by a user who is neither the owner of the (source)
\* account nor staff changes no balance and appends no Transaction or
\* Notification row, whatever the user's role is.
C8_StrangersChangeNothing ==
  [][\A r \in Reqs :
       (Answers(r) /\ req[r].role # "staff" /\ req[r].row.owner # req[r].user)
         => (accounts' = accounts /\ txns' = txns /\ notifications' = notifications)]_vars

\* C9: a profile's role is one of customer and staff and never changes.
C9_RoleNeverChanges ==
  [][\A u \in Users : role[u] \in USER_ROLES /\ role'[u] = role[u]]_vars

\* C10: a successful deposit of amount a raises the account's balance by
\* exactly a and appends exactly one Transaction row, of type deposit and
\* amount a.
C10_DepositAddsExactly ==
  [][\A r \in Reqs :
       (Answers(r) /\ req'[r].op = "deposit" /\ req'[r].resp = "Deposit successful")
         => /\ accounts'[req[r].acct].balance
                 = accounts[req[r].acct].balance + req[r].amount
            /\ txns' = Append(txns, Txn(nextTxnId, "deposit", req[r].acct, req[r].amount))]_vars

\* The request r decides on what is stored: the row it loaded is the stored row.
LoadedIsStored(r) == req[r].row = accounts[req[r].acct]

\* C11: a withdrawal of more than the account's stored balance answers
\* "Insufficient balance", leaves the balance and appends no row; a withdrawal
\* of at most the balance that ran on its own lowers the balance by exactly
\* the amount and appends exactly one row, of type withdraw.
C11_WithdrawChecksBalance ==
  [][\A r \in Reqs :
       (Answers(r) /\ req[r].op = "withdraw")
         => LET a == req[r].acct
                amt == req[r].amount
            IN IF amt > accounts[a].balance
                 THEN /\ req'[r].resp = "Insufficient balance"
                      /\ accounts' = accounts
                      /\ txns' = txns
                 ELSE LoadedIsStored(r)
                        => /\ accounts'[a].balance = accounts[a].balance - amt
                           /\ txns' = Append(txns, Txn(nextTxnId, "withdraw", a, amt))]_vars

\* C12: a transfer the database accepts, of more than the source's stored
\* balance, answers "Insufficient balance", changes no balance and appends no
\* row; one of at most the balance that ran on its own lowers the source by
\* exactly the amount and raises the target by exactly the amount.
C12_TransferMovesExactly ==
  [][\A r \in Reqs :
       (req[r].pc = "validated" /\ req'[r].pc = "done"
          /\ req'[r].resp \notin {"server_error", "notification_error"})
         => LET a == req[r].acct
                t == req[r].tgt
                amt == req[r].amount
            IN IF amt > accounts[a].balance
                 THEN /\ req'[r].resp = "Insufficient balance"
                      /\ accounts' = accounts
                      /\ txns' = txns
                 ELSE (LoadedIsStored(r) /\ req[r].trow = accounts[t])
                        => /\ accounts'[a].balance = accounts[a].balance - amt
                           /\ accounts'[t].balance = accounts[t].balance + amt]_vars

\* C13: a transfer whose target is its source is refused whatever its amount
\* and the balance, and changes no balance and appends no Transaction or
\* Notification row: it never gets past the form, which reports the target.
C13_SameAccountRefused ==
  [][\A r \in Reqs :
       (req[r].pc \in {"loaded", "validated"} /\ req[r].op = "transfer"
          /\ req[r].tgt = req[r].acct /\ req'[r] # req[r])
         => /\ req'[r].pc = "done"
            /\ req'[r].resp \in {"form_errors_target_account",
                                 "form_errors_amount_target_account"}
            /\ accounts' = accounts
            /\ txns' = txns
            /\ notifications' = notifications]_vars

\* A transfer with a valid amount was refused for its target; under
\* SpecLedger both accounts exist, so its target was its source.
C13_Witness ==
  \E r \in Reqs : /\ req[r].pc = "done" /\ req[r].op = "transfer"
                  /\ req[r].resp = "form_errors_target_account"

\* C14: the Transaction table is append-only: every row of a state is a row
\* of the next state, with the same fields.
C14_LogAppendOnly ==
  [][\A i \in 1..Len(txns) : \E j \in 1..Len(txns') : txns'[j] = txns[i]]_vars

\* C15: the notifications are not part of the transfer's atomic unit: when
\* creating one fails, the two balance changes and the two Transaction rows
\* of the transfer are committed and the transfer is answered as successful.
C15_NotificationFailureKeepsTransfer ==
  [][\A r \in Reqs :
       TransferNotificationFails(r)
         => /\ req'[r].resp = "Transfer successful"
            /\ accounts'[req[r].acct].balance = req[r].row.balance - req[r].amount
            /\ accounts'[req[r].tgt].balance = req[r].trow.balance + req[r].amount
            /\ Len(txns') = Len(txns) + 2]_vars

\* C16: every transfer updates its two account rows in ascending id order
\* whatever its direction, and no two transfers wait for each other's row.
C16_RowsInAscendingOrder ==
  /\ \A r \in Reqs : req[r].pc = "source_saved" => req[r].acct < req[r].tgt
  /\ \A r \in Reqs, r2 \in Reqs : ~WaitCycle(r, r2)

\* C17: two concurrent transfers that share an account row are serialized on
\* it: the second is decided and applied on the balance the first one left, so
\* a transfer that answers 'Transfer successful' took its amount from the
\* stored source balance and added it to the stored target balance.
C17_SharedRowSerialized ==
  [][\A r \in Reqs :
       (req[r].pc = "validated" /\ req'[r].pc = "done"
          /\ req'[r].resp = "Transfer successful")
         => /\ accounts'[req[r].acct].balance
                 = accounts[req[r].acct].balance - req[r].amount
            /\ accounts'[req[r].tgt].balance
                 = accounts[req[r].tgt].balance + req[r].amount]_vars

\* C18: a status decision (approve or reject) requested by a user whose role
\* is not staff leaves the account's status as it was.
C18_DecisionNeedsStaff ==
  [][\A u \in Users, a \in AccountIds, action \in {"approve", "reject"} :
       (role[u] # "staff" /\ pending_accounts(u, a, action))
         => accounts'[a].status = accounts[a].status]_vars

\* C19: an account that create_account has just stored is pending and holds
\* 0.00, whatever balance the request supplied.
C19_CreatedPendingAndEmpty ==
  [][\A u \in Users, o \in Users, b \in BalanceInputs :
       create_account(u, o, b)
         => /\ accounts'[nextAccountId].status = "pending"
            /\ accounts'[nextAccountId].balance = 0]_vars

\* C20: in every state the ledger operations, account creation and account
\* editing can reach, no stored account holds less than 0.00.
C20_NoNegativeBalanceAnywhere ==
  \A a \in AccountIds : accounts[a].exists => ~(accounts[a].balance < 0)

\* C21: an account's owner is fixed at creation: no step changes the owner of
\* an account that exists before and after it.
C21_OwnerNeverChanges ==
  [][\A a \in AccountIds :
       (accounts[a].exists /\ accounts'[a].exists)
         => accounts'[a].owner = accounts[a].owner]_vars

\* A request that is past its form.
PastForm(r) ==
  \/ req[r].pc = "loaded" /\ req[r].op \in {"deposit", "withdraw"}
  \/ req[r].pc \in {"validated", "source_saved"}

\* C22: a deposit, withdrawal or transfer of a zero or negative amount is
\* refused by its form: no request gets past the form with such an amount, a
\* transfer that carries one is answered with the form's amount error and
\* changes no balance and appends no row, and every Transaction row has an
\* amount > 0.
C22_NonPositiveAmountRefused ==
  /\ [](\A i \in 1..Len(txns) : txns[i].amount > 0)
  /\ [](\A r \in Reqs : PastForm(r) => req[r].amount > 0)
  /\ [][\A r \in Reqs :
          (req[r].pc = "loaded" /\ req[r].amount <= 0 /\ req'[r] # req[r])
            => /\ req'[r].pc = "done"
               /\ req'[r].resp \in {"form_errors", "form_errors_amount_target_account"}
               /\ accounts' = accounts
               /\ txns' = txns]_vars

\* A deposit and a transfer of a refused amount have both been answered with
\* form errors, and the log has a row.
C22_Witness ==
  /\ \E r \in Reqs : /\ req[r].pc = "done" /\ req[r].op = "deposit"
                     /\ req[r].resp = "form_errors"
  /\ \E r \in Reqs : /\ req[r].pc = "done" /\ req[r].op = "transfer"
                     /\ req[r].resp = "form_errors"
  /\ Len(txns) > 0

\* C23: a Transaction row has a target account exactly when it is a transfer
\* leg: a transfer_out or transfer_in row names the other account of its
\* transfer, a deposit or withdraw row names none.
C23_TargetOnTransferLegsOnly ==
  \A i \in 1..Len(txns) :
    IF txns[i].type \in {"transfer_out", "transfer_in"}
      THEN txns[i].target \in AccountIds /\ txns[i].target # txns[i].account
      ELSE txns[i].target = NoAccount

\* The request r failed inside its atomic block.
FailedInBlock(r) == req'[r].resp \in {"server_error", "notification_error"}

\* The step wrote nothing of request r's operation.
WroteNothing == accounts' = accounts /\ txns' = txns /\ notifications' = notifications

\* The step wrote everything request r's operation writes.
WroteAll(r) ==
  LET q == req[r]
  IN \/ /\ q.op = "deposit"
        /\ accounts' = SaveAccount(accounts, q.acct,
                                   [q.row EXCEPT !.balance = @ + q.amount])
        /\ txns' = Append(txns, Txn(nextTxnId, "deposit", q.acct, q.amount))
     \/ /\ q.op = "withdraw"
        /\ accounts' = SaveAccount(accounts, q.acct,
                                   [q.row EXCEPT !.balance = @ - q.amount])
        /\ txns' = Append(txns, Txn(nextTxnId, "withdraw", q.acct, q.amount))
     \/ /\ q.op = "transfer"
        /\ accounts' = SaveAccount(SaveAccount(accounts, q.acct,
                                     [q.row EXCEPT !.balance = @ - q.amount]),
                                   q.tgt, [q.trow EXCEPT !.balance = @ + q.amount])
        /\ Len(txns') = Len(txns) + 2
        /\ SubSeq(txns', 1, Len(txns)) = txns
        /\ txns'[Len(txns) + 1].account = q.acct
        /\ txns'[Len(txns) + 2].account = q.tgt

\* C24: each deposit, withdrawal and transfer commits all of its writes or
\* none: the step that answers a request either writes its balance change(s)
\* and its Transaction row(s) together or writes nothing, and it writes
\* nothing when a write inside its atomic block failed.
C24_AllOrNothing ==
  [][\A r \in Reqs :
       Answers(r) => IF FailedInBlock(r) THEN WroteNothing
                     ELSE WroteNothing \/ WroteAll(r)]_vars

\* A transfer has failed inside its atomic block and a request has been
\* committed in full.
C24_Witness ==
  /\ \E r \in Reqs : /\ req[r].pc = "done" /\ req[r].op = "transfer"
                     /\ req[r].resp = "server_error"
  /\ \E r \in Reqs : /\ req[r].pc = "done"
                     /\ req[r].resp \in {"Deposit successful", "Withdrawal successful",
                                         "Transfer successful"}

ReadOps == {"account_detail", "admin_dashboard"}

\* The request r has rendered a read.
Rendered(r) ==
  req[r].pc = "done" /\ req[r].op \in ReadOps /\ req[r].resp = "rendered"

\* The Transaction row t is among the rows the read r is to show.
ShownBy(r, t) == req[r].op = "account_detail" => t.account = req[r].acct

SameReadNoCommitBetween(r1, r2) ==
  /\ Rendered(r1) /\ Rendered(r2)
  /\ req[r1].op = req[r2].op /\ req[r1].user = req[r2].user
  /\ req[r1].acct = req[r2].acct
  /\ req[r1].at = req[r1].upto /\ req[r2].at = req[r2].upto
  /\ req[r1].at = req[r2].at

Appended ==
  [i \in 1..(Len(notifications') - Len(notifications)) |->
     [receiver |-> notifications'[Len(notifications) + i].receiver,
      kind |-> notifications'[Len(notifications) + i].kind]]

\* What a committed transfer from account a to account t is to send: one
\* notification to the target's owner, one to the source's owner, one to each
\* staff profile.
Expected(a, t) ==
  <<[receiver |-> accounts'[t].owner, kind |-> "received"],
    [receiver |-> accounts'[a].owner, kind |-> "sent"]>>
  \o [i \in 1..Len(StaffUsers) |-> [receiver |-> StaffUsers[i], kind |-> "admin"]]

\* C26: the step that commits a transfer appends exactly one notification for
\* the target's owner, one for the source's owner and one for each profile
\* that is staff at that time; every other step of a ledger request (a
\* refused or failed transfer, a deposit, a withdrawal) appends none and no
\* step removes one.
C26_TransferNotifies ==
  [][\A r \in Reqs :
       (req[r].pc \in {"loaded", "validated"} /\ req'[r] # req[r])
         => /\ Len(notifications') >= Len(notifications)
            /\ SubSeq(notifications', 1, Len(notifications)) = notifications
            /\ IF req'[r].pc = "done" /\ req'[r].resp = "Transfer successful"
                 THEN Appended = Expected(req[r].acct, req[r].tgt)
                 ELSE Appended = <<>>]_vars

\* A transfer has been committed and notified, and another one refused.
C26_Witness ==
  /\ Len(notifications) >= 3
  /\ \E r \in Reqs : req[r].pc = "done" /\ req[r].resp = "Transfer successful"
  /\ \E r \in Reqs : req[r].pc = "done" /\ req[r].resp = "Insufficient balance"

\* C28: deletion keeps references intact: every Transaction row's account
\* (and target account, when set) is a stored account, every stored account's
\* owner is an existing profile, and the step that deletes a customer leaves
\* no account owned by that customer.
C28_DeletionKeepsReferences ==
  /\ [](\A i \in 1..Len(txns) :
          /\ accounts[txns[i].account].exists
          /\ txns[i].target # NoAccount => accounts[txns[i].target].exists)
  /\ [](\A a \in AccountIds : accounts[a].exists => role[accounts[a].owner] # "none")
  /\ [][\A u \in Users, c \in Users :
          delete_customer(u, c)
            => \A a \in AccountIds : ~(accounts'[a].exists /\ accounts'[a].owner = c)]_vars

\* A customer has been deleted, a request that was about to write that
\* customer's account has been refused, and the other customer's account and
\* its rows are still there.
C28_Witness ==
  /\ \E c \in Users : role[c] = "none"
  /\ \E r \in Reqs : req[r].pc = "done" /\ req[r].resp = "integrity_error"
  /\ \E a \in AccountIds : accounts[a].exists /\ Len(OfAccount(a)) > 0

=============================================================================
